---- MODULE Spec2Model ----
(***************************************************************************)
(* canopen.Network / canopen.Node (src/canopen/__init__.py).               *)
(*                                                                         *)
(* Specifications over one state:                                          *)
(*   Spec      - the outbound side: connect / disconnect, the tx_queue and *)
(*               the _send_to_can threads;                                 *)
(*   FairSpec  - Spec within its own bounds, with the threads scheduled;   *)
(*   RouteSpec - the inbound side: the node registry, the per-node         *)
(*               service tables, put_message routing and the dispatcher;   *)
(*   ViewSpec  - the registry read through the mapping view;               *)
(*   ProdSpec  - Spec with a second thread calling send_message;           *)
(*   NotifySpec- connect / disconnect with the Notifier's reader thread;   *)
(*   RaceSpec  - a broadcast fan-out, step by step, beside add_node;       *)
(*   DecompSpec- the two masks applied to every 11-bit identifier.         *)
(***************************************************************************)
EXTENDS Integers, Sequences, FiniteSets, Bags, TLC

\* ---------------------------------------------------------------- bounds
MaxConnects == 2        \* connect() calls made in one behaviour
MaxMsgs == 2            \* send_message() calls made in one behaviour
FairConnects == 1       \* connect() calls in one behaviour of FairSpec
FairMsgs == 2           \* send_message() calls in one behaviour of FairSpec
MaxFrames == 2          \* frames the transport surfaces to the notifiers
MaxNodes == 2           \* Node objects constructed in one behaviour

\* ------------------------------------------------------ program constants
SDO_RESPONSE == 1408    \* 0x580
SDO_REQUEST == 1536     \* 0x600
HEARTBEAT == 1792       \* 0x700
NodeMask == 127         \* 0x7F,  put_message
FnMask == 1920          \* 0x780, Node.on_message

\* ----------------------------------------------------------------- inputs
Threads == 1..MaxConnects          \* the n-th connect starts thread n, opens bus n, makes Event n
TxIds == {0, 1541}                 \* identifiers given to send_message (0x000, 0x605)
NodeIds == {1, 2}                  \* node addresses given to add_node / Node()
RxAddrs == {0, 1, 2}               \* node-address fields of routed identifiers
RxIds == {f + a : f \in {SDO_RESPONSE, SDO_REQUEST, HEARTBEAT}, a \in RxAddrs}
RxData == {5}                      \* payloads of routed frames
CobIds == {SDO_REQUEST, 1541}      \* cob_ids given to register_service (0x600, 0x605)
ViewKeys == {1, 2, 3}               \* keys given to the mapping view
FrameIds == {HEARTBEAT + 1, SDO_RESPONSE}  \* arbitration ids of received frames (0x701, 0x580)
None == 0                          \* self.bus = None
Objects == 1..MaxNodes             \* Node objects, in the order they are constructed
EmptyDict == [k \in {} |-> 0]      \* {}
Op(name, can_id, data, node, raised) ==
    [name |-> name, can_id |-> can_id, data |-> data, node |-> node, raised |-> raised]
\* a can.Message as the dispatcher reads it, with the put_message calls it led to
Frame(id_type, is_error_frame, is_remote_frame, arbitration_id, data, puts) ==
    [id_type |-> id_type, is_error_frame |-> is_error_frame,
     is_remote_frame |-> is_remote_frame, arbitration_id |-> arbitration_id,
     data |-> data, puts |-> puts]
NoFrame == Frame(FALSE, FALSE, FALSE, -1, 0, <<>>)
View(name, key, result, raised) ==
    [name |-> name, key |-> key, result |-> result, raised |-> raised]
NoView == View("none", 0, 0, FALSE)
NoFan == [state |-> "idle"]

VARIABLES
    \* Network, outbound side
    bus,            \* self.bus: the transport opened by the latest connect (None before)
    stop_event,     \* self.stop_event: the Event made by the latest connect
    send_thread,    \* self.send_thread: the Thread made by the latest connect
    event_set,      \* event_set[e]: Event e is set
    tx_queue,       \* self.tx_queue: sequence of <<can_id, data>>
    pc,             \* pc[t]: where thread t is in _send_to_can
    held,           \* held[t]: the (can_id, data) thread t popped and has not sent yet
    lifecycle,      \* "disconnected" | "connected" | "joining" (inside disconnect's join)
    \* the Bus Transport, as observed
    bus_log,        \* bus.send invocations in order: [bus, msg, ok]
    shutdowns,      \* shutdowns[b]: bus.shutdown() invocations on bus b
    \* history
    nenq,           \* send_message calls so far
    quiet,          \* payloads enqueued while disconnected with send_thread exited
    join_timeout,   \* some join(2) returned on timeout
    mark,           \* Len(bus_log) when disconnect last set the stop flag
    accepted,       \* the entries send_message has put on the queue so far
    \* the Notifier made by connect, and its reader threads
    notifier,       \* self.notifier: the Notifier made by the latest connect
    running,        \* running[n]: Notifier n's `running` Event is set
    npc,            \* npc[n]: where the reader thread of Notifier n is
    nmsg,           \* nmsg[n]: the frame the reader thread of Notifier n received
    late,           \* put_message calls made while the network was disconnected
    nrecv,          \* frames the transport has surfaced so far
    \* Network, inbound side
    nodes,          \* self.nodes: node address -> Node object
    node_id,        \* node_id[o]: Node.id of object o (0: not constructed)
    service_callbacks, \* service_callbacks[o]: Node.service_callbacks, key -> callback
    op,             \* the last inbound-side operation: its name, arguments and outcome
    calls,          \* the callback invocations made by the last operation (a bag)
    added,          \* the Node objects add_node has put in the registry so far
    latest,         \* history: address -> the Node most recently given to add_node
    frame,          \* the frame of the last on_message_received, and its put_message calls
    view,           \* the last call on the mapping view: name, key, result, raised
    \* a broadcast fan-out in progress (RaceSpec)
    fan,
    \* the identifier being decomposed and its two fields (DecompSpec)
    ident,
    node_addr,
    fn_field

txvars == <<bus, stop_event, send_thread, event_set, tx_queue, pc, held, lifecycle,
            bus_log, shutdowns, nenq, quiet, join_timeout, mark, accepted>>
nvars == <<notifier, running, npc, nmsg, late, nrecv>>
rxvars == <<nodes, node_id, service_callbacks, op, calls, added, latest, frame, view>>
dvars == <<ident, node_addr, fn_field>>
vars == <<txvars, nvars, rxvars, fan, dvars>>

\* ------------------------------------------------------------------ Init
\* Network.__init__
InitNetwork ==
    /\ bus = None
    /\ stop_event = None
    /\ send_thread = None
    /\ event_set = [e \in Threads |-> FALSE]
    /\ tx_queue = <<>>
    /\ pc = [t \in Threads |-> "idle"]
    /\ held = [t \in Threads |-> <<>>]
    /\ lifecycle = "disconnected"
    /\ bus_log = <<>>
    /\ shutdowns = [b \in Threads |-> 0]
    /\ nenq = 0
    /\ quiet = {}
    /\ join_timeout = FALSE
    /\ nodes = EmptyDict
    /\ node_id = [o \in Objects |-> 0]
    /\ service_callbacks = [o \in Objects |-> EmptyDict]
    /\ op = Op("init", 0, 0, 0, FALSE)
    /\ calls = EmptyBag
    /\ added = {}
    /\ mark = 0
    /\ accepted = {}
    /\ notifier = None
    /\ running = [n \in Threads |-> FALSE]
    /\ npc = [n \in Threads |-> "idle"]
    /\ nmsg = [n \in Threads |-> NoFrame]
    /\ late = 0
    /\ nrecv = 0
    /\ latest = EmptyDict
    /\ frame = NoFrame
    /\ view = NoView
    /\ fan = NoFan
    /\ node_addr = -1
    /\ fn_field = -1

Init == InitNetwork /\ ident = 0

\* ------------------------------------------------------- outbound actions
Live(t) == pc[t] \notin {"idle", "done"}

\* Network.connect (only called from the disconnected state)
Connect ==
    /\ lifecycle = "disconnected"
    /\ bus < MaxConnects
    /\ bus' = bus + 1
    /\ stop_event' = bus + 1
    /\ send_thread' = bus + 1
    /\ pc' = [pc EXCEPT ![bus + 1] = "check"]
    /\ lifecycle' = "connected"
    /\ notifier' = bus + 1
    /\ running' = [running EXCEPT ![bus + 1] = TRUE]
    /\ npc' = [npc EXCEPT ![bus + 1] = "check"]
    /\ UNCHANGED <<nmsg, late, nrecv, rxvars, fan, dvars>>
    /\ UNCHANGED <<event_set, tx_queue, held, bus_log, shutdowns, nenq, quiet, join_timeout,
                   mark, accepted>>

\* Network.disconnect, lines 40-41: the flag is set, the join begins
DisconnectSet ==
    /\ lifecycle = "connected"
    /\ running' = [running EXCEPT ![notifier] = FALSE]
    /\ event_set' = [event_set EXCEPT ![stop_event] = TRUE]
    /\ lifecycle' = "joining"
    /\ mark' = Len(bus_log)
    /\ UNCHANGED <<notifier, npc, nmsg, late, nrecv, rxvars, fan, dvars>>
    /\ UNCHANGED <<bus, stop_event, send_thread, tx_queue, pc, held, bus_log, shutdowns,
                   nenq, quiet, join_timeout, accepted>>

\* Network.disconnect, line 42: join(2) returns, the thread exited or not
DisconnectJoin ==
    /\ lifecycle = "joining"
    /\ lifecycle' = "disconnected"
    /\ join_timeout' = (join_timeout \/ pc[send_thread] # "done")
    /\ UNCHANGED <<nvars, rxvars, fan, dvars>>
    /\ UNCHANGED <<bus, stop_event, send_thread, event_set, tx_queue, pc, held, bus_log,
                   shutdowns, nenq, quiet, mark, accepted>>

\* Network.send_message, by the thread that also calls connect and disconnect
SendMessage(can_id) ==
    /\ lifecycle # "joining"
    /\ nenq < MaxMsgs
    /\ nenq' = nenq + 1
    /\ tx_queue' = Append(tx_queue, <<can_id, nenq + 1>>)
    /\ accepted' = accepted \cup {<<can_id, nenq + 1>>}
    /\ quiet' = IF lifecycle = "disconnected" /\ (send_thread = None \/ pc[send_thread] = "done")
                THEN quiet \cup {nenq + 1} ELSE quiet
    /\ UNCHANGED <<nvars, rxvars, fan, dvars>>
    /\ UNCHANGED <<bus, stop_event, send_thread, event_set, pc, held, lifecycle, bus_log,
                   shutdowns, join_timeout, mark>>

\* _send_to_can line 45: `while not self.stop_event.is_set()`, read through self
LoopCheck(t) ==
    /\ pc[t] = "check"
    /\ pc' = [pc EXCEPT ![t] = IF event_set[stop_event] THEN "shutdown" ELSE "get"]
    /\ UNCHANGED <<nvars, rxvars, fan, dvars>>
    /\ UNCHANGED <<bus, stop_event, send_thread, event_set, tx_queue, held, lifecycle,
                   bus_log, shutdowns, nenq, quiet, join_timeout, mark, accepted>>

\* as GetMessage, followed by `if can_id:` in place of `if can_id is not None:`
GetMessageTruthy(t) ==
    /\ pc[t] = "get"
    /\ IF tx_queue # <<>> /\ Head(tx_queue)[1] # 0
       THEN /\ held' = [held EXCEPT ![t] = Head(tx_queue)]
            /\ tx_queue' = Tail(tx_queue)
            /\ pc' = [pc EXCEPT ![t] = "send"]
       ELSE /\ pc' = [pc EXCEPT ![t] = "check"]
            /\ tx_queue' = IF tx_queue # <<>> THEN Tail(tx_queue) ELSE tx_queue
            /\ UNCHANGED held
    /\ UNCHANGED <<nvars, rxvars, fan, dvars>>
    /\ UNCHANGED <<bus, stop_event, send_thread, event_set, lifecycle, bus_log, shutdowns,
                   nenq, quiet, join_timeout, mark, accepted>>

\* as GetMessage, with a pop that blocks without a timeout
GetMessageNoTimeout(t) ==
    /\ pc[t] = "get"
    /\ tx_queue # <<>>
    /\ held' = [held EXCEPT ![t] = Head(tx_queue)]
    /\ tx_queue' = Tail(tx_queue)
    /\ pc' = [pc EXCEPT ![t] = "send"]
    /\ UNCHANGED <<nvars, rxvars, fan, dvars>>
    /\ UNCHANGED <<bus, stop_event, send_thread, event_set, lifecycle, bus_log, shutdowns,
                   nenq, quiet, join_timeout, mark, accepted>>

\* _send_to_can lines 46-47 with Network.get_message: a pop, or (None, None) on timeout
GetMessage(t) ==
    /\ pc[t] = "get"
    /\ IF tx_queue # <<>>
       THEN /\ held' = [held EXCEPT ![t] = Head(tx_queue)]
            /\ tx_queue' = Tail(tx_queue)
            /\ pc' = [pc EXCEPT ![t] = "send"]
       ELSE /\ pc' = [pc EXCEPT ![t] = "check"]
            /\ UNCHANGED <<held, tx_queue>>
    /\ UNCHANGED <<nvars, rxvars, fan, dvars>>
    /\ UNCHANGED <<bus, stop_event, send_thread, event_set, lifecycle, bus_log, shutdowns,
                   nenq, quiet, join_timeout, mark, accepted>>

\* as BusSend, with the CanError not caught: it ends the thread
BusSendUncaught(t, ok) ==
    /\ pc[t] = "send"
    /\ bus_log' = Append(bus_log, [bus |-> bus, msg |-> held[t], ok |-> ok])
    /\ held' = [held EXCEPT ![t] = <<>>]
    /\ pc' = [pc EXCEPT ![t] = IF ok THEN "check" ELSE "done"]
    /\ UNCHANGED <<nvars, rxvars, fan, dvars>>
    /\ UNCHANGED <<bus, stop_event, send_thread, event_set, tx_queue, lifecycle, shutdowns,
                   nenq, quiet, join_timeout, mark, accepted>>

\* _send_to_can lines 48-54: self.bus.send(msg); a CanError is logged
BusSend(t, ok) ==
    /\ pc[t] = "send"
    /\ bus_log' = Append(bus_log, [bus |-> bus, msg |-> held[t], ok |-> ok])
    /\ held' = [held EXCEPT ![t] = <<>>]
    /\ pc' = [pc EXCEPT ![t] = "check"]
    /\ UNCHANGED <<nvars, rxvars, fan, dvars>>
    /\ UNCHANGED <<bus, stop_event, send_thread, event_set, tx_queue, lifecycle, shutdowns,
                   nenq, quiet, join_timeout, mark, accepted>>

\* _send_to_can line 55: self.bus.shutdown()
BusShutdown(t) ==
    /\ pc[t] = "shutdown"
    /\ shutdowns' = [shutdowns EXCEPT ![bus] = @ + 1]
    /\ pc' = [pc EXCEPT ![t] = "done"]
    /\ UNCHANGED <<nvars, rxvars, fan, dvars>>
    /\ UNCHANGED <<bus, stop_event, send_thread, event_set, tx_queue, held, lifecycle,
                   bus_log, nenq, quiet, join_timeout, mark, accepted>>

ThreadStep(t) ==
    \/ LoopCheck(t)
    \/ GetMessage(t)
    \/ \E ok \in BOOLEAN : BusSend(t, ok)
    \/ BusShutdown(t)

Next ==
    \/ Connect
    \/ DisconnectSet
    \/ DisconnectJoin
    \/ \E c \in TxIds : SendMessage(c)
    \/ \E t \in Threads : LoopCheck(t)
    \/ \E t \in Threads : GetMessage(t)
    \/ \E t \in Threads, ok \in BOOLEAN : BusSend(t, ok)
    \/ \E t \in Threads : BusShutdown(t)

Spec == Init /\ [][Next]_vars

\* The same steps within FairSpec's own bounds; every thread is scheduled, its blocking
\* pop returns after the timeout, and bus.send and bus.shutdown return.
FairNext ==
    \/ Connect /\ bus' <= FairConnects
    \/ DisconnectSet
    \/ DisconnectJoin
    \/ \E c \in TxIds : SendMessage(c) /\ nenq' <= FairMsgs
    \/ \E t \in Threads : ThreadStep(t)

FairSpec ==
    /\ Init
    /\ [][FairNext]_vars
    /\ \A t \in Threads : WF_vars(ThreadStep(t))

\* ------------------------------------------- enqueuers on other threads
\* Network.send_message by a thread other than the one in connect and disconnect
ProducerSend(can_id) ==
    /\ nenq < MaxMsgs
    /\ nenq' = nenq + 1
    /\ tx_queue' = Append(tx_queue, <<can_id, nenq + 1>>)
    /\ accepted' = accepted \cup {<<can_id, nenq + 1>>}
    /\ quiet' = IF lifecycle = "disconnected" /\ (send_thread = None \/ pc[send_thread] = "done")
                THEN quiet \cup {nenq + 1} ELSE quiet
    /\ UNCHANGED <<nvars, rxvars, fan, dvars>>
    /\ UNCHANGED <<bus, stop_event, send_thread, event_set, pc, held, lifecycle, bus_log,
                   shutdowns, join_timeout, mark>>

ProdNext ==
    \/ Connect
    \/ DisconnectSet
    \/ DisconnectJoin
    \/ \E c \in TxIds : SendMessage(c)
    \/ \E c \in TxIds : ProducerSend(c)
    \/ \E t \in Threads : LoopCheck(t)
    \/ \E t \in Threads : GetMessage(t)
    \/ \E t \in Threads, ok \in BOOLEAN : BusSend(t, ok)
    \/ \E t \in Threads : BusShutdown(t)

ProdSpec == Init /\ [][ProdNext]_vars

\* -------------------------------------------------------- inbound side
\* Python's a & b on non-negative integers
RECURSIVE BitAnd(_, _)
BitAnd(a, b) ==
    IF a = 0 \/ b = 0 THEN 0
    ELSE (a % 2) * (b % 2) + 2 * BitAnd(a \div 2, b \div 2)

\* as node_address, with a mask one bit wider
node_address_wide(can_id) == BitAnd(can_id, 2 * NodeMask + 1)

\* `can_id & 0x7F` of put_message
node_address(can_id) == BitAnd(can_id, NodeMask)

\* `can_id & 0x780` of on_message
function_code(can_id) == BitAnd(can_id, FnMask)

\* dict[key] = value
DictSet(d, key, value) ==
    [k \in DOMAIN d \cup {key} |-> IF k = key THEN value ELSE d[k]]

\* Node.register_service: the table after self.service_callbacks[cob_id] = callback
register_service(table, cob_id, callback) ==
    DictSet(table, cob_id, callback)

\* as NodeInit, with the state-transfer handler under SDO_REQUEST
NodeInitRequest(o) ==
    register_service(
        register_service(EmptyDict, SDO_REQUEST, <<o, "sdo.on_response">>),
        HEARTBEAT, <<o, "nmt.on_response">>)

\* Node.__init__: the service table of a new Node object o
NodeInit(o) ==
    register_service(
        register_service(EmptyDict, SDO_RESPONSE, <<o, "sdo.on_response">>),
        HEARTBEAT, <<o, "nmt.on_response">>)

\* as on_message, with the whole identifier as the key
on_message_unmasked(o, can_id, data) ==
    IF can_id \in DOMAIN service_callbacks[o]
    THEN SetToBag({<<service_callbacks[o][can_id], can_id, data>>})
    ELSE EmptyBag

\* Node.on_message of object o: the callback invocations it makes
on_message(o, can_id, data) ==
    LET fn_code == function_code(can_id)
    IN  IF fn_code \in DOMAIN service_callbacks[o]
        THEN SetToBag({<<service_callbacks[o][fn_code], can_id, data>>})
        ELSE EmptyBag

\* `for node in self.nodes.values(): node.on_message(can_id, data)`
RECURSIVE FanOut(_, _, _)
FanOut(keys, can_id, data) ==
    IF keys = {} THEN EmptyBag
    ELSE LET k == CHOOSE k \in keys : TRUE
         IN  on_message(nodes[k], can_id, data) (+) FanOut(keys \ {k}, can_id, data)

\* as put_message, without the broadcast branch
put_message_no_broadcast(can_id, data) ==
    LET n == node_address(can_id)
    IN  IF n \in DOMAIN nodes
        THEN [calls |-> on_message(nodes[n], can_id, data), raised |-> FALSE]
        ELSE [calls |-> EmptyBag, raised |-> FALSE]

\* as put_message, with `self.nodes[node_id]` not guarded by `node_id in self.nodes`
put_message_unguarded(can_id, data) ==
    LET n == node_address(can_id)
    IN  IF n = 0
        THEN [calls |-> FanOut(DOMAIN nodes, can_id, data), raised |-> FALSE]
        ELSE IF n \in DOMAIN nodes
        THEN [calls |-> on_message(nodes[n], can_id, data), raised |-> FALSE]
        ELSE [calls |-> EmptyBag, raised |-> TRUE]

\* Network.put_message: the callback invocations it makes, and whether it raises
put_message(can_id, data) ==
    LET n == node_address(can_id)
    IN  IF n = 0
        THEN [calls |-> FanOut(DOMAIN nodes, can_id, data), raised |-> FALSE]
        ELSE IF n \in DOMAIN nodes
        THEN [calls |-> on_message(nodes[n], can_id, data), raised |-> FALSE]
        ELSE [calls |-> EmptyBag, raised |-> FALSE]

\* as add_node, with self.nodes.setdefault(node.id, node)
add_node_setdefault(o, n) ==
    IF n \in DOMAIN nodes THEN nodes ELSE DictSet(nodes, n, o)

\* Network.add_node: the registry after self.nodes[node.id] = node
add_node(o, n) ==
    DictSet(nodes, n, o)

Constructed(o) == node_id[o] # 0
Fresh(o) == ~Constructed(o) /\ \A p \in Objects : p < o => Constructed(p)

\* Node(n, object_dictionary), constructed by the application and not yet added
NewNode(o, n) ==
    /\ Fresh(o)
    /\ node_id' = [node_id EXCEPT ![o] = n]
    /\ service_callbacks' = [service_callbacks EXCEPT ![o] = NodeInit(o)]
    /\ op' = Op("Node", 0, 0, o, FALSE)
    /\ calls' = EmptyBag
    /\ UNCHANGED <<nodes, added, latest>>
    /\ frame' = NoFrame
    /\ view' = NoView
    /\ UNCHANGED <<txvars, nvars, fan, dvars>>

\* Network.add_node(n) with an integer: a Node is constructed and added
AddNodeInt(o, n) ==
    /\ Fresh(o)
    /\ node_id' = [node_id EXCEPT ![o] = n]
    /\ service_callbacks' = [service_callbacks EXCEPT ![o] = NodeInit(o)]
    /\ nodes' = add_node(o, n)
    /\ added' = added \cup {o}
    /\ latest' = [k \in DOMAIN latest \cup {n} |-> IF k = n THEN o ELSE latest[k]]
    /\ op' = Op("add_node", 0, 0, o, FALSE)
    /\ calls' = EmptyBag
    /\ frame' = NoFrame
    /\ view' = NoView
    /\ UNCHANGED <<txvars, nvars, fan, dvars>>

\* Network.add_node(node) with a Node object
AddNode(o) ==
    /\ Constructed(o)
    /\ nodes' = add_node(o, node_id[o])
    /\ added' = added \cup {o}
    /\ latest' = [k \in DOMAIN latest \cup {node_id[o]} |->
                     IF k = node_id[o] THEN o ELSE latest[k]]
    /\ op' = Op("add_node", 0, 0, o, FALSE)
    /\ calls' = EmptyBag
    /\ UNCHANGED <<node_id, service_callbacks>>
    /\ frame' = NoFrame
    /\ view' = NoView
    /\ UNCHANGED <<txvars, nvars, fan, dvars>>

\* node.register_service(cob_id, callback) by the application
RegisterService(o, cob_id) ==
    /\ Constructed(o)
    /\ service_callbacks' = [service_callbacks EXCEPT
            ![o] = register_service(@, cob_id, <<o, "user">>)]
    /\ op' = Op("register_service", cob_id, 0, o, FALSE)
    /\ calls' = EmptyBag
    /\ UNCHANGED <<nodes, node_id, added, latest>>
    /\ frame' = NoFrame
    /\ view' = NoView
    /\ UNCHANGED <<txvars, nvars, fan, dvars>>

\* Network.put_message(can_id, data)
PutMessage(can_id, data) ==
    /\ LET r == put_message(can_id, data)
       IN  /\ calls' = r.calls
           /\ op' = Op("put_message", can_id, data, 0, r.raised)
    /\ UNCHANGED <<nodes, node_id, service_callbacks, added, latest>>
    /\ frame' = NoFrame
    /\ view' = NoView
    /\ UNCHANGED <<txvars, nvars, fan, dvars>>

\* as on_message_received, without the test of is_remote_frame
on_message_received_no_rtr(msg) ==
    IF msg.id_type \/ msg.is_error_frame
    THEN <<>>
    ELSE <<<<msg.arbitration_id, msg.data>>>>

\* MessageDispatcher.on_message_received: the put_message calls it makes
on_message_received(msg) ==
    IF msg.id_type \/ msg.is_error_frame \/ msg.is_remote_frame
    THEN <<>>
    ELSE <<<<msg.arbitration_id, msg.data>>>>

\* the dispatcher is given a frame
OnMessageReceived(id_type, is_error_frame, is_remote_frame, can_id, data) ==
    /\ LET msg == Frame(id_type, is_error_frame, is_remote_frame, can_id, data, <<>>)
           puts == on_message_received(msg)
       IN  /\ frame' = [msg EXCEPT !.puts = puts]
           /\ IF puts = <<>>
              THEN /\ calls' = EmptyBag
                   /\ op' = Op("on_message_received", can_id, data, 0, FALSE)
              ELSE LET r == put_message(puts[1][1], puts[1][2])
                   IN  /\ calls' = r.calls
                       /\ op' = Op("put_message", puts[1][1], puts[1][2], 0, r.raised)
    /\ view' = NoView
    /\ UNCHANGED <<nodes, node_id, service_callbacks, added, latest>>
    /\ UNCHANGED <<txvars, nvars, fan, dvars>>

RouteNext ==
    \/ \E o \in Objects, n \in NodeIds : NewNode(o, n)
    \/ \E o \in Objects, n \in NodeIds : AddNodeInt(o, n)
    \/ \E o \in Objects : AddNode(o)
    \/ \E o \in Objects, c \in CobIds : RegisterService(o, c)
    \/ \E c \in RxIds, d \in RxData : PutMessage(c, d)
    \/ \E x, e, r \in BOOLEAN, c \in FrameIds, d \in RxData : OnMessageReceived(x, e, r, c, d)

RouteSpec == Init /\ [][RouteNext]_vars

\* ------------------------------------------- the two fields of an identifier
\* the largest identifier the two masks cover, 0x7FF
MaxId == NodeMask + FnMask

\* put_message(ident, data): the two masks applied to ident, and the routing they give
Decompose(data) ==
    /\ node_addr' = node_address(ident)
    /\ fn_field' = function_code(ident)
    /\ LET r == put_message(ident, data)
       IN  /\ calls' = r.calls
           /\ op' = Op("put_message", ident, data, 0, r.raised)
    /\ frame' = NoFrame
    /\ view' = NoView
    /\ UNCHANGED <<nodes, node_id, service_callbacks, added, latest>>
    /\ UNCHANGED <<txvars, nvars, fan, ident>>

DecompInit == InitNetwork /\ ident \in 0..MaxId

DecompNext ==
    \/ \E o \in Objects, n \in NodeIds : AddNodeInt(o, n)
    \/ \E d \in RxData : Decompose(d)

DecompSpec == DecompInit /\ [][DecompNext]_vars

\* ------------------------------------ the notifier's reader beside disconnect
\* The reader thread that can.Notifier(self.bus, [self.dispatcher], 1) starts: while its
\* running flag is set it waits up to 1 time unit for a frame and hands a frame it got to
\* every listener. disconnect clears the flag and waits for nothing.
Returned(n) == n # notifier \/ lifecycle = "disconnected"

NotifierCheck(n) ==
    /\ npc[n] = "check"
    /\ npc' = [npc EXCEPT ![n] = IF running[n] THEN "recv" ELSE "done"]
    /\ UNCHANGED <<notifier, running, nmsg, late, nrecv>>
    /\ UNCHANGED <<txvars, rxvars, fan, dvars>>

\* bus.recv(1) returns None on the timeout
NotifierTimeout(n) ==
    /\ npc[n] = "recv"
    /\ npc' = [npc EXCEPT ![n] = "check"]
    /\ UNCHANGED <<notifier, running, nmsg, late, nrecv>>
    /\ UNCHANGED <<txvars, rxvars, fan, dvars>>

\* bus.recv(1) returns a frame
NotifierRecv(n, can_id, data) ==
    /\ npc[n] = "recv"
    /\ nrecv < MaxFrames
    /\ nrecv' = nrecv + 1
    /\ nmsg' = [nmsg EXCEPT ![n] = Frame(FALSE, FALSE, FALSE, can_id, data, <<>>)]
    /\ npc' = [npc EXCEPT ![n] = "dispatch"]
    /\ UNCHANGED <<notifier, running, late>>
    /\ UNCHANGED <<txvars, rxvars, fan, dvars>>

\* the listener call: MessageDispatcher.on_message_received(msg) on the reader thread
NotifierDispatch(n) ==
    /\ npc[n] = "dispatch"
    /\ LET msg == nmsg[n]
           puts == on_message_received(msg)
       IN  /\ frame' = [msg EXCEPT !.puts = puts]
           /\ late' = IF puts # <<>> /\ Returned(n) THEN late + 1 ELSE late
           /\ IF puts = <<>>
              THEN /\ calls' = EmptyBag
                   /\ op' = Op("on_message_received", msg.arbitration_id, msg.data, 0, FALSE)
              ELSE LET r == put_message(puts[1][1], puts[1][2])
                   IN  /\ calls' = r.calls
                       /\ op' = Op("put_message", puts[1][1], puts[1][2], 0, r.raised)
    /\ npc' = [npc EXCEPT ![n] = "check"]
    /\ nmsg' = [nmsg EXCEPT ![n] = NoFrame]
    /\ view' = NoView
    /\ UNCHANGED <<nodes, node_id, service_callbacks, added, latest>>
    /\ UNCHANGED <<notifier, running, nrecv>>
    /\ UNCHANGED <<txvars, fan, dvars>>

NotifyNext ==
    \/ Connect
    \/ DisconnectSet
    \/ DisconnectJoin
    \/ \E o \in Objects, n \in NodeIds : AddNodeInt(o, n)
    \/ \E n \in Threads : NotifierCheck(n)
    \/ \E n \in Threads : NotifierTimeout(n)
    \/ \E n \in Threads, c \in FrameIds, d \in RxData : NotifierRecv(n, c, d)
    \/ \E n \in Threads : NotifierDispatch(n)

NotifySpec == Init /\ [][NotifyNext]_vars

\* ------------------------------- a broadcast beside add_node, step by step
\* what self.nodes.values() is: a list copy (Python 2) or a view of the dict (Python 3)
ValuesKinds == {"list", "view"}

\* put_message with node_id == 0, up to the iterator over self.nodes.values()
BroadcastBegin(data, kind) ==
    /\ fan.state = "idle"
    /\ fan' = [state |-> "iterating", kind |-> kind, can_id |-> HEARTBEAT,
               data |-> data, size |-> Cardinality(DOMAIN nodes), before |-> nodes,
               visited |-> {}, got |-> EmptyBag, raised |-> FALSE]
    /\ UNCHANGED <<txvars, nvars, rxvars, dvars>>

\* one turn of the for loop: the iterator's next value and node.on_message on it; the
\* iterator of a dict view raises RuntimeError when the dict has changed size
BroadcastNext ==
    /\ fan.state = "iterating"
    /\ IF fan.kind = "view" /\ Cardinality(DOMAIN nodes) # fan.size
       THEN fan' = [fan EXCEPT !.state = "done", !.raised = TRUE]
       ELSE LET src == IF fan.kind = "list" THEN fan.before ELSE nodes
                rest == DOMAIN src \ fan.visited
            IN  IF rest = {}
                THEN fan' = [fan EXCEPT !.state = "done"]
                ELSE \E k \in rest :
                        fan' = [fan EXCEPT
                            !.visited = @ \cup {k},
                            !.got = @ (+) on_message(src[k], fan.can_id, fan.data)]
    /\ UNCHANGED <<txvars, nvars, rxvars, dvars>>

\* put_message has returned or raised
BroadcastReturn ==
    /\ fan.state = "done"
    /\ fan' = NoFan
    /\ UNCHANGED <<txvars, nvars, rxvars, dvars>>

\* add_node for an address the registry does not hold yet
AddNewAddress(o) == node_id[o] \notin DOMAIN nodes /\ AddNode(o)
AddNewAddressInt(o, n) == n \notin DOMAIN nodes /\ AddNodeInt(o, n)

RaceNext ==
    \/ \E o \in Objects, n \in NodeIds : NewNode(o, n)
    \/ \E o \in Objects, n \in NodeIds : AddNewAddressInt(o, n)
    \/ \E o \in Objects : AddNewAddress(o)
    \/ \E d \in RxData, kind \in ValuesKinds : BroadcastBegin(d, kind)
    \/ BroadcastNext
    \/ BroadcastReturn

RaceSpec == Init /\ [][RaceNext]_vars

\* ------------------------------------------------------ the mapping view
\* as getitem, with self.nodes.get(node_id)
getitem_get(k) ==
    IF k \in DOMAIN nodes
    THEN View("__getitem__", k, nodes[k], FALSE)
    ELSE View("__getitem__", k, 0, FALSE)

\* Network.__getitem__: self.nodes[node_id], a KeyError for a missing key
getitem(k) ==
    IF k \in DOMAIN nodes
    THEN View("__getitem__", k, nodes[k], FALSE)
    ELSE View("__getitem__", k, 0, TRUE)

\* Network.__contains__
contains(k) == View("__contains__", k, k \in DOMAIN nodes, FALSE)

\* Network.__len__
len == View("__len__", 0, Cardinality(DOMAIN nodes), FALSE)

\* Network.__iter__: the keys the iterator yields
iter == View("__iter__", 0, DOMAIN nodes, FALSE)

\* one call on the mapping view
ViewCall(v) ==
    /\ view' = v
    /\ op' = Op("view", 0, 0, 0, FALSE)
    /\ calls' = EmptyBag
    /\ frame' = NoFrame
    /\ UNCHANGED <<nodes, node_id, service_callbacks, added, latest>>
    /\ UNCHANGED <<txvars, nvars, fan, dvars>>

GetItem(k) == ViewCall(getitem(k))
Contains(k) == ViewCall(contains(k))
Length == ViewCall(len)
Iterate == ViewCall(iter)

ViewNext ==
    \/ \E o \in Objects, n \in NodeIds : NewNode(o, n)
    \/ \E o \in Objects, n \in NodeIds : AddNodeInt(o, n)
    \/ \E o \in Objects : AddNode(o)
    \/ \E k \in ViewKeys : GetItem(k)
    \/ \E k \in ViewKeys : Contains(k)
    \/ Length
    \/ Iterate

ViewSpec == Init /\ [][ViewNext]_vars

\* ------------------------------------------------------- outbound claims
Payloads == 1..MaxMsgs
InQueue(n) == \E i \in DOMAIN tx_queue : tx_queue[i][2] = n
Handed(n) == \E i \in DOMAIN bus_log : bus_log[i].msg[2] = n
Exited(t) == t = None \/ pc[t] = "done"
NoLiveThread == \A t \in Threads : ~Live(t)
LoopRunning == \E t \in Threads : pc[t] \in {"check", "get", "send"}

\* C1: entries reach bus.send in the order they were enqueued: of two entries handed to
\* bus.send, the one enqueued first is handed first.
FifoDelivery ==
    \A i, j \in DOMAIN bus_log : i < j => bus_log[i].msg[2] < bus_log[j].msg[2]

\* C2: between a connect and the following disconnect at most one thread executing
\* _send_to_can is live, also when an earlier join returned on its timeout.
AtMostOneLoop ==
    lifecycle = "connected" => Cardinality({t \in Threads : Live(t)}) <= 1

\* C3: bus.shutdown is invoked on every opened transport exactly once: never twice, and
\* never zero times once the loop of the thread started with it has exited.
ReleasedExactlyOnce ==
    \A b \in Threads : shutdowns[b] <= 1 /\ (pc[b] = "done" => shutdowns[b] = 1)

\* a step in which bus.send is invoked and fails with a CanError
SendFails == Len(bus_log') = Len(bus_log) + 1 /\ ~bus_log'[Len(bus_log')].ok
FailedBefore(n) == \E i \in DOMAIN bus_log : ~bus_log[i].ok /\ bus_log[i].msg[2] < n
HeldBy(n) == {t \in Threads : held[t] # <<>> /\ held[t][2] = n}

\* C7: a failing bus.send ends no thread and leaves the queue as it is; no entry handed to
\* bus.send is handed to it again, held by a thread or back on the queue; and an entry
\* enqueued after a failed one leaves the queue and is handed to bus.send, unless no loop
\* is running.
SendFailureNonFatal ==
    /\ [][SendFails => /\ \A t \in Threads : pc[t] = "send" => pc'[t] \in {"send", "check"}
                       /\ \A t \in Threads : Live(t) => Live(t)'
                       /\ tx_queue' = tx_queue]_vars
    /\ [](\A i, j \in DOMAIN bus_log :
            /\ i # j => bus_log[i].msg # bus_log[j].msg
            /\ ~InQueue(bus_log[i].msg[2])
            /\ HeldBy(bus_log[i].msg[2]) = {})
    /\ \A n \in Payloads :
          (FailedBefore(n) /\ InQueue(n)) ~> (Handed(n) \/ ~LoopRunning)

\* C7 witness: an entry is handed to bus.send after an earlier one failed, the loop running
SendFailureSeen ==
    /\ \E n \in Payloads : FailedBefore(n) /\ Handed(n)
    /\ LoopRunning

\* C8: while the network is disconnected and the send thread has exited, no entry
\* enqueued in such a state is handed to bus.send (it stays queued until the next connect);
\* and the entries enqueued in such a state are handed to bus.send in the order they were
\* enqueued.
QuietSendMessage ==
    /\ [][(lifecycle = "disconnected" /\ Exited(send_thread))
            => \A i \in DOMAIN bus_log' :
                 i > Len(bus_log) => bus_log'[i].msg[2] \notin quiet]_vars
    /\ [](\A i, j \in DOMAIN bus_log :
            (i < j /\ bus_log[i].msg[2] \in quiet /\ bus_log[j].msg[2] \in quiet)
                => bus_log[i].msg[2] < bus_log[j].msg[2])

\* C9: once disconnect has set the stop flag, with the queue empty, every thread in
\* _send_to_can terminates, unless a later connect has replaced the flag before.
ShutdownTerminates ==
    (stop_event # None /\ event_set[stop_event] /\ tx_queue = <<>>)
        ~> (NoLiveThread \/ ~event_set[stop_event])

\* C9 witness: after connect and disconnect with nothing enqueued, the thread has exited
ShutdownDone ==
    /\ lifecycle = "disconnected"
    /\ send_thread # None
    /\ nenq = 0
    /\ NoLiveThread
    /\ shutdowns[bus] = 1

\* -------------------------------------------------------- inbound claims
\* the two fields of an identifier, by arithmetic: bits 0-6 and bits 7-10
AddrOf(id) == id % 128
FnOf(id) == ((id \div 128) % 16) * 128
Table(k) == service_callbacks[nodes[k]]
HasService(k, id) == FnOf(id) \in DOMAIN Table(k)
Invocation(k, id, data) == <<Table(k)[FnOf(id)], id, data>>
Routed == op.name = "put_message"

\* C4: put_message with node-address field 0 invokes, exactly once and with the identifier
\* and payload given, the callback under the function code of every registered node that
\* has one, and invokes nothing else.
BroadcastFanOut ==
    (Routed /\ AddrOf(op.can_id) = 0) =>
        /\ \A k \in DOMAIN nodes :
              HasService(k, op.can_id) =>
                  CopiesIn(Invocation(k, op.can_id, op.data), calls) = 1
        /\ \A e \in BagToSet(calls) :
              \E k \in DOMAIN nodes :
                  HasService(k, op.can_id) /\ e = Invocation(k, op.can_id, op.data)

\* C4 witness: a broadcast reached one registered node and found no callback on another
BroadcastSeen ==
    /\ Routed /\ AddrOf(op.can_id) = 0
    /\ \E k, l \in DOMAIN nodes : HasService(k, op.can_id) /\ ~HasService(l, op.can_id)
    /\ BagCardinality(calls) = 1

\* C5: put_message with a registered, nonzero node address invokes the callback under the
\* function code of the node stored at that address, exactly once and with the identifier
\* and payload given, and invokes no other callback.
UnicastRouting ==
    (Routed /\ AddrOf(op.can_id) # 0 /\ AddrOf(op.can_id) \in DOMAIN nodes) =>
        LET k == AddrOf(op.can_id)
        IN  /\ HasService(k, op.can_id) =>
                  CopiesIn(Invocation(k, op.can_id, op.data), calls) = 1
            /\ \A e \in BagToSet(calls) :
                  HasService(k, op.can_id) /\ e = Invocation(k, op.can_id, op.data)

\* C5 witness: a unicast was delivered while another node with that service is registered
UnicastSeen ==
    /\ Routed /\ AddrOf(op.can_id) # 0
    /\ calls # EmptyBag
    /\ \E l \in DOMAIN nodes : l # AddrOf(op.can_id) /\ HasService(l, op.can_id)

\* the routed identifier has no destination: an unregistered nonzero address, or a
\* registered address whose node has no callback under the function code
Dropped(id) ==
    /\ AddrOf(id) # 0
    /\ AddrOf(id) \in DOMAIN nodes => ~HasService(AddrOf(id), id)

\* C6: a put_message whose identifier has no destination invokes no callback, raises
\* nothing, and leaves the registry, the service tables and the outbound queue as they are.
SilentDrop ==
    [][(op'.name = "put_message" /\ Dropped(op'.can_id)) =>
            /\ calls' = EmptyBag
            /\ ~op'.raised
            /\ nodes' = nodes
            /\ service_callbacks' = service_callbacks
            /\ tx_queue' = tx_queue]_vars

\* C6 witness: one identifier was dropped at a registered node that lacks the service,
\* with another address unregistered
DropSeen ==
    /\ Routed /\ Dropped(op.can_id)
    /\ AddrOf(op.can_id) \in DOMAIN nodes
    /\ DOMAIN nodes # NodeIds
    /\ calls = EmptyBag

\* an object add_node stored, whose address now holds another object
Displaced(o) == o \in added /\ nodes[node_id[o]] # o

\* C10: add_node leaves the node it was given at the node's address, every key of the
\* registry holds a node of that address, and put_message invokes no callback of a node
\* that a later add_node has displaced.
ReRegistrationReplaces ==
    /\ op.name = "add_node" => nodes[node_id[op.node]] = op.node
    /\ \A k \in DOMAIN nodes : node_id[nodes[k]] = k
    /\ Routed => \A e \in BagToSet(calls) : ~Displaced(e[1][1])

\* C10 witness: a message for the address of a displaced node was delivered
ReplacedSeen ==
    /\ Routed
    /\ calls # EmptyBag
    /\ \E o \in Objects : Displaced(o) /\ AddrOf(op.can_id) \in {0, node_id[o]}

\* the last frame given to the dispatcher had one of the three flags set
Flagged == frame.id_type \/ frame.is_error_frame \/ frame.is_remote_frame

\* C11: a frame that is extended, an error frame or a remote request leads to no
\* put_message call and no callback; any other frame leads to exactly one put_message
\* call, with the identifier and payload of the frame.
InboundFilter ==
    frame # NoFrame =>
        /\ Flagged => frame.puts = <<>> /\ calls = EmptyBag /\ ~Routed
        /\ ~Flagged =>
              /\ frame.puts = <<<<frame.arbitration_id, frame.data>>>>
              /\ Routed /\ op.can_id = frame.arbitration_id /\ op.data = frame.data

\* C11 witness: a remote request for a registered node with that service was filtered out
FilteredSeen ==
    /\ frame # NoFrame
    /\ frame.is_remote_frame /\ ~frame.id_type /\ ~frame.is_error_frame
    /\ AddrOf(frame.arbitration_id) \in DOMAIN nodes
    /\ HasService(AddrOf(frame.arbitration_id), frame.arbitration_id)
    /\ calls = EmptyBag

\* the node has only the callbacks its constructor registered
DefaultsOnly(o) ==
    \A k \in DOMAIN service_callbacks[o] : service_callbacks[o][k][2] # "user"
OnlyCall(cb, id, data) ==
    BagCardinality(calls) = 1 /\ CopiesIn(<<cb, id, data>>, calls) = 1

\* C12: for a registered node n that has only its constructor's callbacks, identifier
\* 0x700+n invokes its heartbeat handler once and nothing else, 0x580+n invokes its
\* state-transfer response handler once and nothing else, and 0x600+n invokes nothing.
DefaultServices ==
    \A n \in DOMAIN nodes :
        (Routed /\ n # 0 /\ DefaultsOnly(nodes[n])) =>
            /\ op.can_id = HEARTBEAT + n =>
                  OnlyCall(<<nodes[n], "nmt.on_response">>, op.can_id, op.data)
            /\ op.can_id = SDO_RESPONSE + n =>
                  OnlyCall(<<nodes[n], "sdo.on_response">>, op.can_id, op.data)
            /\ op.can_id = SDO_REQUEST + n => calls = EmptyBag

\* C12 witness: a heartbeat identifier reached a node that has only its default services
HeartbeatSeen ==
    \E n \in DOMAIN nodes :
        /\ Routed /\ DefaultsOnly(nodes[n])
        /\ op.can_id = HEARTBEAT + n
        /\ calls # EmptyBag

\* C13: the mapping view agrees with the add_node calls made so far: membership and
\* iteration give the addresses added, the length is their number, a lookup gives the
\* node most recently added at the key, and a lookup of an address never added raises;
\* the registry holds exactly the nodes most recently added.
FacadeConsistency ==
    /\ nodes = latest
    /\ view.name = "__contains__" => view.result = (view.key \in DOMAIN latest)
    /\ view.name = "__iter__" => view.result = DOMAIN latest
    /\ view.name = "__len__" => view.result = Cardinality({node_id[o] : o \in added})
    /\ view.name = "__getitem__" =>
          IF view.key \in DOMAIN latest
          THEN ~view.raised /\ view.result = latest[view.key]
          ELSE view.raised

\* C13 witness: a lookup gave the second of two nodes added at one address
LookupSeen ==
    /\ view.name = "__getitem__" /\ ~view.raised
    /\ \E o \in added : node_id[o] = view.key /\ o # view.result

\* C14: after register_service(cob_id, callback) on a node, the node's Service Table
\* holds the callback under the key cob_id & 0x780 and every key of the table is a
\* masked function code, so the callback is the one found for every identifier of
\* that function code.
MaskedServiceKeys ==
    op.name = "register_service" =>
        /\ \A k \in DOMAIN service_callbacks[op.node] : k = FnOf(k)
        /\ FnOf(op.can_id) \in DOMAIN service_callbacks[op.node]
        /\ service_callbacks[op.node][FnOf(op.can_id)] = <<op.node, "user">>

FanCopies(o) == CopiesIn(<<<<o, "nmt.on_response">>, fan.can_id, fan.data>>, fan.got)

\* C15: a broadcast fan-out that ran while add_node registered nodes at new addresses
\* ends without raising, has invoked every node registered before it began exactly
\* once, and has invoked every other node at most once.
ConcurrentFanOut ==
    fan.state = "done" =>
        /\ ~fan.raised
        /\ \A k \in DOMAIN fan.before : FanCopies(fan.before[k]) = 1
        /\ \A o \in Objects : FanCopies(o) <= 1

\* C16: no put_message call is made for a connection whose disconnect has returned.
NoDispatchAfterDisconnect == late = 0

FnCodes == {128 * j : j \in 0..15}

\* C17: for every identifier in 0..0x7FF the node address is the low seven bits and the
\* function code is bits 7..10, the two add up to the identifier (so each pair comes
\* from one identifier only), the masks share no bit, and put_message invokes only the
\* callback under the function code, of the node at the address (of every node for
\* address 0), whatever the other field is.
IdentifierDecomposition ==
    /\ BitAnd(NodeMask, FnMask) = 0
    /\ node_addr # -1 =>
          /\ node_addr = ident % 128 /\ node_addr \in 0..127
          /\ fn_field = (ident \div 128) * 128 /\ fn_field \in FnCodes
          /\ node_addr + fn_field = ident
    /\ (node_addr # -1 /\ Routed) =>
          LET sel == IF node_addr = 0 THEN {nodes[k] : k \in DOMAIN nodes}
                     ELSE IF node_addr \in DOMAIN nodes THEN {nodes[node_addr]} ELSE {}
              hit == {o \in sel : fn_field \in DOMAIN service_callbacks[o]}
          IN  /\ BagToSet(calls) =
                    {<<service_callbacks[o][fn_field], ident, op.data>> : o \in hit}
              /\ \A c \in BagToSet(calls) : CopiesIn(c, calls) = 1

\* C17 witness: an identifier with both fields non-zero reached its node's callback
DecomposedSeen ==
    /\ Routed /\ node_addr = 2 /\ fn_field = SDO_RESPONSE
    /\ calls # EmptyBag

\* C18: bus.send is never called on a transport whose bus.shutdown has been called, and
\* a send_message call makes no bus.send call.
NoSendAfterShutdown ==
    [][ /\ Len(bus_log') > Len(bus_log) => shutdowns[bus_log'[Len(bus_log')].bus] = 0
        /\ nenq' # nenq => bus_log' = bus_log ]_vars

\* C19: from the moment disconnect sets the shutdown flag until the next connect, at most
\* one further entry is handed to bus.send.
BoundedTail ==
    lifecycle \in {"joining", "disconnected"} => Len(bus_log) <= mark + 1

InLog(e) == Cardinality({i \in 1..Len(bus_log) : bus_log[i].msg = e})
InHeld(e) == Cardinality({t \in Threads : held[t] = e})
InTxQueue(e) == Cardinality({i \in 1..Len(tx_queue) : tx_queue[i] = e})

\* C20: every entry accepted by send_message is in exactly one place, the outbound
\* queue, the hands of one loop thread between pop and send, or the calls made to
\* bus.send, and nothing else is in any of these places.
OutboundConservation ==
    /\ \A e \in accepted : InTxQueue(e) + InHeld(e) + InLog(e) = 1
    /\ \A i \in 1..Len(tx_queue) : tx_queue[i] \in accepted
    /\ \A t \in Threads : held[t] # <<>> => held[t] \in accepted
    /\ \A i \in 1..Len(bus_log) : bus_log[i].msg \in accepted

\* C20 witness: two loop threads each hold an entry they popped, and an entry with
\* identifier 0 has been popped
TwoHeldSeen ==
    /\ \E t, u \in Threads : t # u /\ held[t] # <<>> /\ held[u] # <<>>
    /\ \E e \in accepted : e[1] = 0 /\ InLog(e) + InHeld(e) = 1

====
